---------------------------- MODULE Spec2Model ----------------------------
(***************************************************************************)
(* A model of the DuckDB dynamic tile service:                             *)
(*   src/Streamlit/tile_server.py  the Flask tile server (tiles, view      *)
(*                                 register, start-up)                     *)
(*   src/Streamlit/app.py          the Streamlit stats consumer            *)
(*                                                                         *)
(* The module holds four state machines over disjoint variables:           *)
(*   SpecView   /update-view and /get-bounds handlers run by threads       *)
(*   SpecTile   /tiles/z/x/y.pbf handlers run by the pool of threads       *)
(*   SpecStats  the poll cycle of main() in app.py                         *)
(*   SpecBBox   tile_to_bbox applied to tile addresses                     *)
(* Each specification holds the other machines' variables at their         *)
(* initial value.                                                          *)
(*                                                                         *)
(* Units: a latitude or longitude is an integer number of 10^-5 degrees in *)
(* the view register (so 52.09 is 5209000) and of 10^-6 degrees in a tile  *)
(* bounding box; a view zoom is an integer number of hundredths.           *)
(***************************************************************************)
EXTENDS Integers, Sequences, FiniteSets, TLC

VARIABLES
    \* ---- view register (tile_server.py: current_stats, update_view, get_bounds)
    current_stats,  \* current_stats['bounds']: 0 is None, u > 0 the dict of request u
    heap,           \* the dict objects parsed from the request bodies, by request
    upc,            \* position of each /update-view handler
    ubody,          \* the JSON body each /update-view request carries
    ustatus,        \* HTTP status each /update-view answered with (0: none yet)
    gpc,            \* position of each /get-bounds handler
    gref,           \* the reference a /get-bounds handler read from current_stats
    gresult,        \* the bounds a /get-bounds handler serialised
    storeOrder,     \* history: the requests in the order they stored (line 125)
    gSeen,          \* history: Len(storeOrder) when the /get-bounds read the register
    gAfterAll,      \* history: whether every update had completed at that read
    \* ---- tile service (tile_server.py: run_server, get_tile, get_connection)
    serverState,    \* "stopped" until run_server has called serve(), then "serving"
    dbPresent,      \* environment: nl_buildings.duckdb exists and can be opened
    extLoadable,    \* environment: LOAD spatial succeeds
    dbAtStart,      \* history: "unknown", or whether the dataset was there at start
    thread_local,   \* _thread_local.connection of each thread (NoConn: no attribute)
    openedBy,       \* history: how many connections each thread has opened
    foreignUse,     \* history: a thread ran a query on a connection another opened
    tpc,            \* where each thread is in get_tile: "idle", "load" or "query"
    treq,           \* the tile request each thread is handling (NoTile: none)
    tcon,           \* the local con of get_connection: the connection this request opened
    lastWorker,     \* the thread that answered the latest tile request (0: none yet)
    lastReq,        \* the tile request answered latest (NoTile: none answered yet)
    lastResp,       \* the response to it, with what the handler did for it
    \* ---- stats consumer (app.py: main, get_view_bounds, query_stats)
    serverView,     \* what /get-bounds of the tile server returns at this moment
    last_bounds,    \* st.session_state.last_bounds: the last-seen rounded key
    stats,          \* st.session_state.stats
    pollLog,        \* history: for each poll cycle, its key and what it did
    ppc,            \* where the run of main() is: "idle" or "query" (in query_stats)
    pbounds,        \* the local bounds of the run of main() that is in query_stats
    \* ---- tile coordinate mapper (tile_server.py: tile_to_bbox)
    tile,           \* the tile address given to tile_to_bbox
    bbox,           \* its bounding box, once computed
    ntile,          \* the east or south neighbour of tile, once chosen
    nbox,           \* the bounding box of the neighbour
    hiLon           \* a high-zoom tile's longitudes, in double arithmetic

viewVars == <<current_stats, heap, upc, ubody, ustatus, gpc, gref, gresult,
              storeOrder, gSeen, gAfterAll>>

tileVars == <<serverState, dbPresent, extLoadable, dbAtStart, thread_local, openedBy,
              foreignUse, tpc, treq, tcon, lastWorker, lastReq, lastResp>>

statsVars == <<serverView, last_bounds, stats, pollLog, ppc, pbounds>>

bboxVars == <<tile, bbox, ntile, nbox, hiLon>>

\* what each machine leaves alone
notView == <<tileVars, statsVars, bboxVars>>
notTile == <<viewVars, statsVars, bboxVars>>
notStats == <<viewVars, tileVars, bboxVars>>
notBBox == <<viewVars, tileVars, statsVars>>

-----------------------------------------------------------------------------
(* Bounds of the model *)

\* poll cycles of one stats-consumer session
MaxPolls == 3
\* highest zoom whose whole tile grid is given to tile_to_bbox
MaxZoom == 3

\* connections one thread may open (duckdb.connect calls that return)
MaxOpens == 2

\* number of concurrent /update-view requests
NumUpdates == 2

-----------------------------------------------------------------------------
(***************************************************************************)
(* The view register.                                                      *)
(***************************************************************************)

Updaters == 1..NumUpdates
Readers == {"g1", "g2"}

\* The bounds objects a map client submits (north, south, east, west) with
\* the zoom of the same request; the two differ in every field.
ViewA == [north |-> 5209512, south |-> 5208488, east |-> 512513, west |-> 511487, zoom |-> 1500]
ViewB == [north |-> 5237333, south |-> 5236667, east |-> 489944, west |-> 488056, zoom |-> 1225]
NoView == [north |-> 0, south |-> 0, east |-> 0, west |-> 0, zoom |-> 0]

\* A request body: json is the kind of JSON value the body is; bounds is the
\* kind of value under its 'bounds' key; view holds the numbers it carries.
\*   bounds = "dict"    a non-empty object {north, south, east, west}
\*   bounds = "absent"  the key is missing (data.get gives None)
\*   bounds = "null"    the key holds null
\*   bounds = "empty"   the key holds {}
\*   bounds = "list"    the key holds a non-empty non-object value
ObjectBodies ==
    { [json |-> "object", bounds |-> "dict", view |-> v] : v \in {ViewA, ViewB} }
    \cup { [json |-> "object", bounds |-> k, view |-> NoView] :
             k \in {"absent", "null", "empty", "list"} }
NonObjectBodies == { [json |-> j, bounds |-> "absent", view |-> NoView] : j \in {"array", "null"} }
Bodies == ObjectBodies \cup NonObjectBodies

\* A dict object on the heap, and what a response carries.  present = FALSE is
\* None (no object); hasZoom says whether the dict has the key 'zoom'.
NoObj == [present |-> FALSE, north |-> 0, south |-> 0, east |-> 0, west |-> 0,
          hasZoom |-> FALSE, zoom |-> 0]
ParsedBounds(v) == [present |-> TRUE, north |-> v.north, south |-> v.south,
                    east |-> v.east, west |-> v.west, hasZoom |-> FALSE, zoom |-> 0]
\* the complete value a request submits: its bounds with its zoom
Submitted(v) == [present |-> TRUE, north |-> v.north, south |-> v.south,
                 east |-> v.east, west |-> v.west, hasZoom |-> TRUE, zoom |-> v.zoom]

\* `not bounds` of line 120
Falsy(body) == body.bounds \in {"absent", "null", "empty"}

\* The order of the statements of update_view after the check of line 120:
\* bounds['zoom'] = zoom (line 124), then current_stats['bounds'] = bounds
\* (line 125), then the response (line 126).
update_view_publish_first(p) ==
    CASE p = "checked" -> "store"
      [] p = "store" -> "setzoom"
      [] p = "setzoom" -> "done"
update_view_order(p) ==
    CASE p = "checked" -> "setzoom"
      [] p = "setzoom" -> "store"
      [] p = "store" -> "done"

ViewInit ==
    /\ current_stats = 0
    /\ heap = [u \in Updaters |-> NoObj]
    /\ upc = [u \in Updaters |-> "start"]
    /\ ubody = [u \in Updaters |-> [json |-> "object", bounds |-> "absent", view |-> NoView]]
    /\ ustatus = [u \in Updaters |-> 0]
    /\ gpc = [g \in Readers |-> "start"]
    /\ gref = [g \in Readers |-> 0]
    /\ gresult = [g \in Readers |-> NoObj]
    /\ storeOrder = <<>>
    /\ gSeen = [g \in Readers |-> 0]
    /\ gAfterAll = [g \in Readers |-> FALSE]

\* update_view, lines 116-121: parse the body, read 'bounds' and 'zoom',
\* reject a request without bounds.  A body that is not a JSON object has no
\* .get: line 117 raises AttributeError, which Flask answers with 500.
UpdateParse(u) ==
    /\ upc[u] = "start"
    /\ \E body \in Bodies :
        /\ ubody' = [ubody EXCEPT ![u] = body]
        /\ IF body.json # "object"
           THEN /\ upc' = [upc EXCEPT ![u] = "done"]
                /\ ustatus' = [ustatus EXCEPT ![u] = 500]
                /\ heap' = heap
           ELSE IF Falsy(body)
           THEN /\ upc' = [upc EXCEPT ![u] = "done"]
                /\ ustatus' = [ustatus EXCEPT ![u] = 400]
                /\ heap' = heap
           ELSE /\ upc' = [upc EXCEPT ![u] = update_view_order("checked")]
                /\ ustatus' = ustatus
                /\ heap' = [heap EXCEPT ![u] =
                              IF body.bounds = "dict" THEN ParsedBounds(body.view) ELSE NoObj]
    /\ UNCHANGED <<current_stats, gpc, gref, gresult, storeOrder, gSeen, gAfterAll>>
    /\ UNCHANGED notView

\* line 124: bounds['zoom'] = zoom.  A truthy bounds that is no object (a
\* list, a string, a number) raises TypeError: 500.
UpdateSetZoom(u) ==
    /\ upc[u] = "setzoom"
    /\ IF ubody[u].bounds = "dict"
       THEN /\ heap' = [heap EXCEPT ![u] = [@ EXCEPT !.hasZoom = TRUE, !.zoom = ubody[u].view.zoom]]
            /\ upc' = [upc EXCEPT ![u] = update_view_order("setzoom")]
            /\ ustatus' = [ustatus EXCEPT ![u] = IF upc'[u] = "done" THEN 200 ELSE @]
       ELSE /\ heap' = heap
            /\ upc' = [upc EXCEPT ![u] = "done"]
            /\ ustatus' = [ustatus EXCEPT ![u] = 500]
    /\ UNCHANGED <<current_stats, ubody, gpc, gref, gresult, storeOrder, gSeen, gAfterAll>>
    /\ UNCHANGED notView

\* line 125: current_stats['bounds'] = bounds, one store of a reference;
\* line 126 answers 200.
UpdateStore(u) ==
    /\ upc[u] = "store"
    /\ current_stats' = u
    /\ storeOrder' = Append(storeOrder, u)
    /\ upc' = [upc EXCEPT ![u] = update_view_order("store")]
    /\ ustatus' = [ustatus EXCEPT ![u] = IF upc'[u] = "done" THEN 200 ELSE @]
    /\ UNCHANGED <<heap, ubody, gpc, gref, gresult, gSeen, gAfterAll>>
    /\ UNCHANGED notView

\* get_bounds, line 133: current_stats.get('bounds') reads the reference ...
GetBoundsRead(g) ==
    /\ gpc[g] = "start"
    /\ gref' = [gref EXCEPT ![g] = current_stats]
    /\ gSeen' = [gSeen EXCEPT ![g] = Len(storeOrder)]
    /\ gAfterAll' = [gAfterAll EXCEPT ![g] = \A u \in Updaters : upc[u] = "done"]
    /\ gpc' = [gpc EXCEPT ![g] = "serialize"]
    /\ UNCHANGED <<current_stats, heap, upc, ubody, ustatus, gresult, storeOrder>>
    /\ UNCHANGED notView

\* ... and jsonify serialises the object it refers to, as it is then.
GetBoundsSerialize(g) ==
    /\ gpc[g] = "serialize"
    /\ gresult' = [gresult EXCEPT ![g] = IF gref[g] = 0 THEN NoObj ELSE heap[gref[g]]]
    /\ gpc' = [gpc EXCEPT ![g] = "done"]
    /\ UNCHANGED <<current_stats, heap, upc, ubody, ustatus, gref, storeOrder, gSeen, gAfterAll>>
    /\ UNCHANGED notView

ViewNext ==
    \/ \E u \in Updaters : UpdateParse(u)
    \/ \E u \in Updaters : UpdateSetZoom(u)
    \/ \E u \in Updaters : UpdateStore(u)
    \/ \E g \in Readers : GetBoundsRead(g)
    \/ \E g \in Readers : GetBoundsSerialize(g)


ViewIdle == ViewInit

-----------------------------------------------------------------------------
(***************************************************************************)
(* The tile service.                                                       *)
(***************************************************************************)

\* Two of the threads of the pool (waitress runs threads=4, line 263; the
\* __main__ block runs one thread per request).
Workers == {1, 2}

\* line 53: the zoom below which get_tile answers without the store
MinZoom == 10

RECURSIVE Pow2(_)
Pow2(k) == IF k = 0 THEN 1 ELSE 2 * Pow2(k - 1)

\* A tile request.  path = "int" when z, x and y are digit strings, which is
\* what the route's <int:...> converters match (line 46); "malformed" is every
\* other path under /tiles/ (a negative or non-numeric index): no route matches.
TileZooms == {9, 10}
TileCols == {0, 1024}
TileRows == {0, 116301}
NoTile == [path |-> "none", z |-> 0, x |-> 0, y |-> 0]
TileRequests ==
    { [path |-> "int", z |-> z, x |-> x, y |-> y] : z \in TileZooms, x \in TileCols, y \in TileRows }
    \cup { [path |-> "malformed", z |-> 0, x |-> 0, y |-> 0] }

\* a valid tile address: column and row in [0, 2^zoom)
ValidAddress(req) ==
    /\ req.path = "int"
    /\ req.x < Pow2(req.z)
    /\ req.y < Pow2(req.z)

\* tile_to_bbox, lines 39-42, raises OverflowError when math.sinh is given an
\* argument beyond +-710.4758...: pi * (1 - 2*(y+1)/n) is below -710.4758 when
\* (y+1)/n > 113.57574...  (for zoom <= 12: y + 1 > 113 n + floor(0.57575 n)).
tile_to_bbox_raises(z, x, y) ==
    y + 1 > 113 * Pow2(z) + (57575 * Pow2(z)) \div 100000

\* line 53
below_min_zoom_off_by_one(z) == z < MinZoom - 1
below_min_zoom(z) == z < MinZoom

\* A response: cache is the max-age of its Cache-Control header (0: the
\* header is not set).  The last four fields record what the handler did:
\* acquired: get_connection was called; opened: duckdb.connect returned a
\* connection; queried: a cursor was asked for and the query issued;
\* failure: what raised, if anything.
Resp(status, body, mimetype, cache, acquired, opened, queried, failure) ==
    [status |-> status, body |-> body, mimetype |-> mimetype, cache |-> cache,
     acquired |-> acquired, opened |-> opened, queried |-> queried, failure |-> failure]
NoResp == Resp(0, "none", "none", 0, FALSE, FALSE, FALSE, "none")

\* Flask's answers where the handler does not build the response itself
RouteNotFound == Resp(404, "html", "text/html", 0, FALSE, FALSE, FALSE, "none")
ServerError(acquired, opened, failure) ==
    Resp(500, "html", "text/html", 0, acquired, opened, FALSE, failure)

\* line 54
LowZoomResponse == Resp(200, "empty", "application/x-protobuf", 0, FALSE, FALSE, FALSE, "none")
\* lines 86, 94-96: tile_data is b'' when the query gives no row or a NULL
TileResponse(outcome, opened) ==
    Resp(200, IF outcome = "rows" THEN "tile" ELSE "empty",
         "application/vnd.mapbox-vector-tile", 3600, TRUE, opened, TRUE, "none")
\* lines 98-102
DegradedResponse(opened) ==
    Resp(200, "empty", "application/x-protobuf", 0, TRUE, opened, TRUE, "query")

\* A connection is named by the thread that opened it and its rank among
\* the connections of that thread.
NoConn == [opener |-> 0, k |-> 0]

\* threading.local() (line 22): the attributes of thread t live in t's own slot
thread_slot(t) == t

TileInit ==
    /\ serverState = "stopped"
    /\ dbPresent \in BOOLEAN
    /\ extLoadable \in BOOLEAN
    /\ dbAtStart = "unknown"
    /\ thread_local = [t \in Workers |-> NoConn]
    /\ openedBy = [t \in Workers |-> 0]
    /\ foreignUse = FALSE
    /\ tpc = [t \in Workers |-> "idle"]
    /\ treq = [t \in Workers |-> NoTile]
    /\ tcon = [t \in Workers |-> NoConn]
    /\ lastWorker = 0
    /\ lastReq = NoTile
    /\ lastResp = NoResp

\* run_server, lines 258-263 (and the __main__ block, lines 266-269): print
\* the path of the dataset and serve.  Nothing looks at the dataset.
run_server ==
    /\ serverState = "stopped"
    /\ serverState' = "serving"
    /\ dbAtStart' = IF dbPresent THEN "present" ELSE "absent"
    /\ UNCHANGED <<dbPresent, extLoadable, thread_local, openedBy, foreignUse,
                   tpc, treq, tcon, lastWorker, lastReq, lastResp>>
    /\ UNCHANGED notTile

\* The environment: the dataset file is removed or rebuilt
\* (build_indexed_db.py removes and recreates it), the extension is
\* installed or removed.  It runs while the handlers wait.
StoreChanges ==
    /\ \/ dbPresent' = ~dbPresent /\ extLoadable' = extLoadable
       \/ extLoadable' = ~extLoadable /\ dbPresent' = dbPresent
    /\ UNCHANGED <<serverState, dbAtStart, thread_local, openedBy, foreignUse,
                   tpc, treq, tcon, lastWorker, lastReq, lastResp>>
    /\ UNCHANGED notTile

\* thread t answers req with resp and is free for the next request
Answer(t, req, resp) ==
    /\ lastWorker' = t
    /\ lastReq' = req
    /\ lastResp' = resp
    /\ tpc' = [tpc EXCEPT ![t] = "idle"]
    /\ treq' = [treq EXCEPT ![t] = NoTile]
    /\ tcon' = [tcon EXCEPT ![t] = NoConn]

\* get_tile, lines 46-57, and get_connection, lines 27-28, run by thread t
\* for request req: routing, the zoom test, tile_to_bbox, and, when the
\* thread has no connection, duckdb.connect, which looks at the dataset file
\* at this moment.  The request is answered here when no route matches, the
\* zoom is low, or tile_to_bbox or connect raises (both are outside the try
\* block of line 59); otherwise the thread goes on to LOAD spatial with the
\* connection it opened, or to the query with the one it has.
get_tile(t, req) ==
    /\ serverState = "serving"
    /\ tpc[t] = "idle"
    \* the bound of the model: a thread opens no more than MaxOpens connections
    /\ openedBy[t] < MaxOpens \/ thread_local[thread_slot(t)] # NoConn
    /\ LET con == thread_local[thread_slot(t)]
           fresh == [opener |-> t, k |-> openedBy[t] + 1]
       IN
       IF req.path # "int" THEN
            /\ Answer(t, req, RouteNotFound)
            /\ UNCHANGED openedBy
       ELSE IF below_min_zoom(req.z) THEN
            /\ Answer(t, req, LowZoomResponse)
            /\ UNCHANGED openedBy
       ELSE IF tile_to_bbox_raises(req.z, req.x, req.y) THEN
            /\ Answer(t, req, ServerError(FALSE, FALSE, "bbox"))
            /\ UNCHANGED openedBy
       ELSE IF con = NoConn /\ ~dbPresent THEN
            \* line 28 raises
            /\ Answer(t, req, ServerError(TRUE, FALSE, "connect"))
            /\ UNCHANGED openedBy
       ELSE IF con = NoConn THEN
            \* line 28 returned a connection: on to line 29
            /\ openedBy' = [openedBy EXCEPT ![t] = @ + 1]
            /\ tcon' = [tcon EXCEPT ![t] = fresh]
            /\ treq' = [treq EXCEPT ![t] = req]
            /\ tpc' = [tpc EXCEPT ![t] = "load"]
            /\ UNCHANGED <<lastWorker, lastReq, lastResp>>
       ELSE
            \* line 27: the thread has a connection, line 31 returns it
            /\ treq' = [treq EXCEPT ![t] = req]
            /\ tpc' = [tpc EXCEPT ![t] = "query"]
            /\ UNCHANGED <<openedBy, tcon, lastWorker, lastReq, lastResp>>
    /\ UNCHANGED <<serverState, dbPresent, extLoadable, dbAtStart, thread_local, foreignUse>>
    /\ UNCHANGED notTile

\* get_connection, lines 29-31: LOAD spatial on the connection just opened,
\* which looks at the extension at this moment.  When it raises, the
\* connection is not stored (line 30 is not reached) and Flask answers 500;
\* otherwise the connection is stored in the thread's slot and the thread
\* goes on to the query.
get_connection(t) ==
    /\ tpc[t] = "load"
    /\ IF ~extLoadable THEN
            /\ Answer(t, treq[t], ServerError(TRUE, TRUE, "load"))
            /\ UNCHANGED thread_local
       ELSE
            /\ thread_local' = [thread_local EXCEPT ![thread_slot(t)] = tcon[t]]
            /\ tpc' = [tpc EXCEPT ![t] = "query"]
            /\ UNCHANGED <<treq, tcon, lastWorker, lastReq, lastResp>>
    /\ UNCHANGED <<serverState, dbPresent, extLoadable, dbAtStart, openedBy, foreignUse>>
    /\ UNCHANGED notTile

\* get_tile, lines 59-102: the query on the connection of the thread's slot
\* and the answer.  outcome is what the store does with the query: "rows" (a
\* non-empty tile), "empty" (no feature in the bbox) or "error" (anything
\* raised inside the try block).
get_tile_query(t, outcome) ==
    /\ tpc[t] = "query"
    /\ foreignUse' = (foreignUse \/ thread_local[thread_slot(t)].opener # t)
    /\ Answer(t, treq[t], IF outcome = "error" THEN DegradedResponse(tcon[t] # NoConn)
                          ELSE TileResponse(outcome, tcon[t] # NoConn))
    /\ UNCHANGED <<serverState, dbPresent, extLoadable, dbAtStart, thread_local, openedBy>>
    /\ UNCHANGED notTile

TileNext ==
    \/ run_server
    \/ StoreChanges
    \/ \E t \in Workers, req \in TileRequests : get_tile(t, req)
    \/ \E t \in Workers : get_connection(t)
    \/ \E t \in Workers, outcome \in {"rows", "empty", "error"} : get_tile_query(t, outcome)

TileIdle == TileInit /\ dbPresent /\ extLoadable

-----------------------------------------------------------------------------
(***************************************************************************)
(* The stats consumer: one Streamlit session running main() every 1.5 s.   *)
(***************************************************************************)

\* round(a / d) as Python's round() gives it for a value that is exactly
\* a / d: to the nearest, a tie to the even neighbour.  (A decimal that ends
\* in 5 is in general not a tie once held as a double; the viewports below
\* carry no such coordinate, and the zoom 12.25 is exact in binary.)
RoundHalfEven(a, d) ==
    LET q == a \div d
        r == a % d
    IN  IF 2 * r < d THEN q
        ELSE IF 2 * r > d THEN q + 1
        ELSE IF q % 2 = 0 THEN q ELSE q + 1

\* A rounded key: coordinates in 10^-4 degrees, zoom in tenths
NoneKey == [isNone |-> TRUE, north |-> 0, south |-> 0, east |-> 0, west |-> 0, zoom |-> 0]

\* make_bounds_key, app.py lines 147-156
make_bounds_key_unrounded(b) ==
    IF ~b.present THEN NoneKey
    ELSE [isNone |-> FALSE, north |-> b.north, south |-> b.south,
          east |-> b.east, west |-> b.west, zoom |-> b.zoom]
make_bounds_key(b) ==
    IF ~b.present THEN NoneKey
    ELSE [isNone |-> FALSE,
          north |-> RoundHalfEven(b.north, 10),
          south |-> RoundHalfEven(b.south, 10),
          east |-> RoundHalfEven(b.east, 10),
          west |-> RoundHalfEven(b.west, 10),
          zoom |-> RoundHalfEven(b.zoom, 10)]

\* The viewports the map reports: ViewA2 is ViewA after a pan and zoom change
\* below the rounding granularity, ViewB is elsewhere.  ViewA2 overlaps one
\* building more than ViewA does.
ViewA2 == [north |-> 5209514, south |-> 5208489, east |-> 512511, west |-> 511486, zoom |-> 1502]
\* a viewport that no building overlaps
ViewC == [north |-> 5300000, south |-> 5299000, east |-> 600000, west |-> 599000, zoom |-> 1400]
StatsViews == {ViewA, ViewA2, ViewB, ViewC}

\* The dataset: the bbox of each building and its projected area (m2)
Buildings ==
    { [xmin |-> 511900, xmax |-> 512000, ymin |-> 5209000, ymax |-> 5209100, area |-> 120],
      [xmin |-> 512100, xmax |-> 512200, ymin |-> 5209513, ymax |-> 5209600, area |-> 80],
      [xmin |-> 489000, xmax |-> 489100, ymin |-> 5237000, ymax |-> 5237100, area |-> 200] }

RECURSIVE SumArea(_)
SumArea(S) ==
    IF S = {} THEN 0
    ELSE LET f == CHOOSE f \in S : TRUE IN f.area + SumArea(S \ {f})

ZeroStats == [count |-> 0, area |-> 0]

\* the query of query_stats, app.py lines 87-100
Aggregate(b) ==
    LET hit == { f \in Buildings : /\ f.xmin <= b.east
                                   /\ f.xmax >= b.west
                                   /\ f.ymin <= b.north
                                   /\ f.ymax >= b.south }
    IN [count |-> Cardinality(hit), area |-> SumArea(hit)]

\* query_stats, app.py lines 74-103; q is what the store does: "ok", or
\* "error" for anything raised inside the try block
query_stats(b, q) ==
    IF ~b.present THEN ZeroStats
    ELSE IF q = "error" THEN ZeroStats
    ELSE Aggregate(b)

\* whether query_stats(b) goes to the dataset (lines 84-97)
QueriesDataset(b) == b.present

\* get_view_bounds, app.py lines 53-62: the bounds of /get-bounds, or None
\* when the request fails, times out or is answered with an error status
get_view_bounds(fetch) == IF fetch = "ok" THEN serverView ELSE NoObj

\* the test of app.py line 161
bounds_changed_always(key, last) == TRUE
bounds_changed(key, last) == key # last

StatsInit ==
    /\ serverView = NoObj
    /\ last_bounds = NoneKey
    /\ stats = ZeroStats
    /\ pollLog = <<>>
    /\ ppc = "idle"
    /\ pbounds = NoObj

\* The map reports a viewport and update_view stores it
\* (tile_server.py lines 124-126).  It runs while main() waits.
MapMoves(v) ==
    /\ serverView' = Submitted(v)
    /\ UNCHANGED <<last_bounds, stats, pollLog, ppc, pbounds>>
    /\ UNCHANGED notStats

\* what a poll cycle enters in pollLog when it has read the register
LogEntry(bounds, key) ==
    [bounds |-> bounds, key |-> key, before |-> last_bounds, ran |-> FALSE, q |-> "none"]

\* pollLog with the outcome of the query of the current cycle
Logged(ran, q) ==
    [pollLog EXCEPT ![Len(pollLog)] = [@ EXCEPT !.ran = ran, !.q = q]]

\* A run of main(), app.py lines 133-162: the poll of /get-bounds, the key,
\* its comparison with the last-seen key and, when they differ, the store of
\* the new key (line 162), which comes BEFORE query_stats is called.
PollFetch(fetch) ==
    /\ ppc = "idle"
    /\ Len(pollLog) < MaxPolls
    /\ LET bounds == get_view_bounds(fetch)
           bounds_key == make_bounds_key(bounds)
       IN /\ pollLog' = Append(pollLog, LogEntry(bounds, bounds_key))
          /\ IF bounds_changed(bounds_key, last_bounds)
             THEN /\ last_bounds' = bounds_key
                  /\ ppc' = "query"
                  /\ pbounds' = bounds
             ELSE UNCHANGED <<last_bounds, ppc, pbounds>>
    /\ UNCHANGED <<serverView, stats>>
    /\ UNCHANGED notStats

\* The run goes on, app.py line 163: query_stats returns and the stats are
\* stored.
PollQueryStats(q) ==
    /\ ppc = "query"
    /\ q \in (IF QueriesDataset(pbounds) THEN {"ok", "error"} ELSE {"none"})
    /\ stats' = query_stats(pbounds, q)
    /\ pollLog' = Logged(QueriesDataset(pbounds), q)
    /\ ppc' = "idle"
    /\ pbounds' = NoObj
    /\ UNCHANGED <<serverView, last_bounds>>
    /\ UNCHANGED notStats

\* The run ends inside the try block of query_stats (lines 84-100) with an
\* exception that line 101 does not catch: except Exception lets through
\* what is no Exception (a stop or rerun of the script, an interrupt).
\* Line 163 does not store; line 162 has stored.
PollCut ==
    /\ ppc = "query"
    /\ QueriesDataset(pbounds)
    /\ pollLog' = Logged(TRUE, "cut")
    /\ ppc' = "idle"
    /\ pbounds' = NoObj
    /\ UNCHANGED <<serverView, last_bounds, stats>>
    /\ UNCHANGED notStats

StatsNext ==
    \/ \E v \in StatsViews : MapMoves(v)
    \/ \E fetch \in {"ok", "fail"} : PollFetch(fetch)
    \/ \E q \in {"ok", "error", "none"} : PollQueryStats(q)
    \/ PollCut

StatsIdle == StatsInit

-----------------------------------------------------------------------------
(***************************************************************************)
(* The tile coordinate mapper, tile_to_bbox.                               *)
(*                                                                         *)
(* For zoom <= MaxZoom the bounding box is computed in millionths of a     *)
(* degree.  The longitudes are exact there, in the model and in the        *)
(* double arithmetic of the code: x / n is exact (n is a power of two),    *)
(* and 360 x / n - 180 = 45 (2x - n) / 2^(z-2) has a numerator far below   *)
(* 2^53.  The latitudes are degrees(atan(sinh(pi * k / 16))) rounded to    *)
(* the millionth, tabulated for k = -16 .. 16.                             *)
(***************************************************************************)

MercatorLatTable ==
    << -85051129, -83979259, -82676285, -81093214, -79171335, -76840816, -74019543,
       -70612614, -66513260, -61606396, -55776573, -48922499, -40979898, -31952162,
       -21943046, -11178402, 0, 11178402, 21943046, 31952162, 40979898, 48922499,
       55776573, 61606396, 66513260, 70612614, 74019543, 76840816, 79171335,
       81093214, 82676285, 83979259, 85051129 >>

\* math.degrees(math.atan(math.sinh(math.pi * t))) for t = k / 16
MercatorLat(k) == MercatorLatTable[k + 17]

\* line 37: x / n * 360.0 - 180.0
min_lon(z, x) == x * (360000000 \div Pow2(z)) - 180000000
\* line 38: (x + 1) / n * 360.0 - 180.0
max_lon(z, x) == (x + 1) * (360000000 \div Pow2(z)) - 180000000
\* lines 39-40: 1 - 2 * y / n is (16 - 32 y / n) sixteenths
max_lat(z, y) == MercatorLat(16 - y * (32 \div Pow2(z)))
\* lines 41-42
min_lat(z, y) == MercatorLat(16 - (y + 1) * (32 \div Pow2(z)))

\* tile_to_bbox, lines 34-43
tile_to_bbox(z, x, y) ==
    [min_lon |-> min_lon(z, x), min_lat |-> min_lat(z, y),
     max_lon |-> max_lon(z, x), max_lat |-> max_lat(z, y)]

(***************************************************************************)
(* Lines 37-38 in IEEE double arithmetic at a zoom z >= 48, for a column   *)
(* x < 2^z / 8.  x / n is exact and so is (x / n) * 360 = 45 x 2^(3-z);     *)
(* the subtraction of 180 gives a result in (-256, -128], where doubles    *)
(* are 2^-45 apart, and rounds it to the nearest of them, a tie to the     *)
(* even one.  The result is -180 + k * 2^-45 degrees with                  *)
(* k = round(45 x / 2^(z-48)); the operators give k.                       *)
(***************************************************************************)
min_lon_double(z, x) == RoundHalfEven(45 * x, Pow2(z - 48))
max_lon_double(z, x) == RoundHalfEven(45 * (x + 1), Pow2(z - 48))

Tiles == { [z |-> z, x |-> x, y |-> y] :
             z \in 0..MaxZoom, x \in 0..(Pow2(MaxZoom) - 1), y \in 0..(Pow2(MaxZoom) - 1) }
ValidTiles == { t \in Tiles : t.x < Pow2(t.z) /\ t.y < Pow2(t.z) }
HighZoomTiles == { [z |-> z, x |-> x, y |-> 0] : z \in {53, 54}, x \in 0..3 }

NoBBox == [min_lon |-> 0, min_lat |-> 0, max_lon |-> 0, max_lat |-> 0]
NoLon == [min_lon |-> -1, max_lon |-> -1]
NoTileAddr == [z |-> -1, x |-> 0, y |-> 0]

BBoxInit ==
    /\ tile \in ValidTiles \cup HighZoomTiles
    /\ bbox = NoBBox
    /\ ntile = NoTileAddr
    /\ nbox = NoBBox
    /\ hiLon = NoLon

\* tile_to_bbox on the tile
ComputeBBox ==
    /\ tile \in ValidTiles
    /\ bbox = NoBBox
    /\ bbox' = tile_to_bbox(tile.z, tile.x, tile.y)
    /\ UNCHANGED <<tile, ntile, nbox, hiLon>>
    /\ UNCHANGED notBBox

\* tile_to_bbox on the tile to the east (dx = 1) or to the south (dy = 1)
ComputeNeighbour(dx, dy) ==
    /\ bbox # NoBBox
    /\ ntile = NoTileAddr
    /\ tile.x + dx < Pow2(tile.z)
    /\ tile.y + dy < Pow2(tile.z)
    /\ ntile' = [z |-> tile.z, x |-> tile.x + dx, y |-> tile.y + dy]
    /\ nbox' = tile_to_bbox(tile.z, tile.x + dx, tile.y + dy)
    /\ UNCHANGED <<tile, bbox, hiLon>>
    /\ UNCHANGED notBBox

\* lines 37-38 on a high-zoom tile
ComputeHighZoomLon ==
    /\ tile \in HighZoomTiles
    /\ hiLon = NoLon
    /\ hiLon' = [min_lon |-> min_lon_double(tile.z, tile.x),
                 max_lon |-> max_lon_double(tile.z, tile.x)]
    /\ UNCHANGED <<tile, bbox, ntile, nbox>>
    /\ UNCHANGED notBBox

BBoxNext ==
    \/ ComputeBBox
    \/ ComputeNeighbour(1, 0)
    \/ ComputeNeighbour(0, 1)
    \/ ComputeHighZoomLon

BBoxIdle ==
    /\ tile = NoTileAddr
    /\ bbox = NoBBox
    /\ ntile = NoTileAddr
    /\ nbox = NoBBox
    /\ hiLon = NoLon

-----------------------------------------------------------------------------
vars == <<viewVars, tileVars, statsVars, bboxVars>>

SpecViewInit == ViewInit /\ TileIdle /\ StatsIdle /\ BBoxIdle
SpecTileInit == TileInit /\ ViewIdle /\ StatsIdle /\ BBoxIdle
SpecStatsInit == StatsInit /\ ViewIdle /\ TileIdle /\ BBoxIdle
SpecBBoxInit == BBoxInit /\ ViewIdle /\ TileIdle /\ StatsIdle

SpecView == SpecViewInit /\ [][ViewNext]_vars
SpecTile == SpecTileInit /\ [][TileNext]_vars
SpecStats == SpecStatsInit /\ [][StatsNext]_vars
SpecBBox == SpecBBoxInit /\ [][BBoxNext]_vars

-----------------------------------------------------------------------------
(***************************************************************************)
(* The claims.                                                             *)
(***************************************************************************)

Range(q) == { q[i] : i \in 1..Len(q) }

\* C1 (SpecView): every completed /get-bounds returns the absent state, and
\* then no update had been stored when it read the register, or the complete
\* bounds-plus-zoom of one update that was stored; a /get-bounds issued once
\* all updates have completed returns the value of the update stored last.
C1_ViewStateAtomic ==
    \A g \in Readers : gpc[g] = "done" =>
        /\ (gresult[g] = NoObj) <=> (gSeen[g] = 0)
        /\ gresult[g] # NoObj =>
              \E u \in Range(storeOrder) :
                  /\ ubody[u].bounds = "dict"
                  /\ gresult[g] = Submitted(ubody[u].view)
        /\ (gAfterAll[g] /\ storeOrder # <<>>) =>
              gresult[g] = Submitted(ubody[storeOrder[Len(storeOrder)]].view)

\* C1 witness: two updates with different values were stored; one
\* /get-bounds read the register between the two stores, another after every
\* update had completed, and they returned different values.
C1_Witness ==
    /\ Len(storeOrder) >= 2
    /\ ubody[storeOrder[1]].view # ubody[storeOrder[2]].view
    /\ \E g, h \in Readers :
          /\ gpc[g] = "done" /\ gSeen[g] = 1
          /\ gpc[h] = "done" /\ gAfterAll[h]
          /\ gresult[g].present /\ gresult[h].present
          /\ gresult[g] # gresult[h]

\* a body that carries no bounds
CarriesNoBounds(body) == body.json # "object" \/ body.bounds \in {"absent", "null", "empty"}

\* C5 (SpecView), as claimed: every /update-view whose body carries no bounds
\* is answered with 400 and has stored nothing in the register.
C5_NoBoundsIs400 ==
    \A u \in Updaters : (upc[u] = "done" /\ CarriesNoBounds(ubody[u])) =>
        /\ ustatus[u] = 400
        /\ u \notin Range(storeOrder)

TileAnswered == lastReq.path # "none"

\* C2 (SpecTile): a tile request with zoom < 10 is answered with status 200
\* and an empty payload, and its handler neither asks for a connection, nor
\* opens one, nor issues a query, whatever the store is.
C2_LowZoomShortCircuit ==
    (lastReq.path = "int" /\ lastReq.z < 10) =>
        /\ lastResp.status = 200
        /\ lastResp.body = "empty"
        /\ ~lastResp.acquired /\ ~lastResp.opened /\ ~lastResp.queried

\* C2 witness: a zoom-9 request was answered while the dataset is absent and
\* the thread that handled it holds no connection.
C2_Witness ==
    /\ lastReq.path = "int" /\ lastReq.z = 9
    /\ lastResp.status = 200
    /\ ~dbPresent
    /\ thread_local[lastWorker] = NoConn

\* C3 (SpecTile), as claimed: a tile request with zoom >= 10 is answered with
\* status 200 whatever fails, and with an empty body when something failed.
C3_DegradeToEmpty ==
    (lastReq.path = "int" /\ lastReq.z >= 10) =>
        /\ lastResp.status = 200
        /\ lastResp.failure # "none" => lastResp.body = "empty"

VectorTileTypes == {"application/vnd.mapbox-vector-tile", "application/x-protobuf"}

\* C4 (SpecTile), as claimed: every response to a tile request carries
\* Cache-Control max-age 3600 and a vector-tile content type.
C4_CacheDirective ==
    lastReq.path = "int" =>
        /\ lastResp.cache = 3600
        /\ lastResp.mimetype \in VectorTileTypes

\* C7 (SpecTile), as claimed: every thread opens at most one connection, and
\* no thread uses a connection another thread opened.
C7_OneConnectionPerThread ==
    /\ \A t \in Workers : openedBy[t] <= 1
    /\ \A t \in Workers : thread_local[t] # NoConn => thread_local[t].opener = t
    /\ ~foreignUse

\* C8 (SpecTile), as claimed: the service is never serving requests when the
\* dataset was absent at start.
C8_FailFastOnAbsentDataset ==
    serverState = "serving" => dbAtStart = "present"

\* C10 (SpecTile), as claimed: a tile request whose indices are no valid tile
\* address is answered with a client error and causes no query.
C10_MalformedRejected ==
    (TileAnswered /\ ~ValidAddress(lastReq)) =>
        /\ lastResp.status \in 400..499
        /\ ~lastResp.queried

\* the rounded key of a polled viewport: 4 decimals for the coordinates, 1 for
\* the zoom
RoundedKey(b) ==
    IF ~b.present THEN NoneKey
    ELSE [isNone |-> FALSE, north |-> RoundHalfEven(b.north, 10),
          south |-> RoundHalfEven(b.south, 10), east |-> RoundHalfEven(b.east, 10),
          west |-> RoundHalfEven(b.west, 10), zoom |-> RoundHalfEven(b.zoom, 10)]

\* what C6 says of every poll: the aggregate query runs only if the rounded
\* key of the polled viewport differs from the last-seen key, and never for
\* the absent viewport
C6_EachPoll(j) ==
    /\ pollLog[j].ran => RoundedKey(pollLog[j].bounds) # pollLog[j].before
    /\ ~pollLog[j].bounds.present => ~pollLog[j].ran

\* C6 (SpecStats), as claimed: as C6_EachPoll, and of ANY two polls with
\* equal rounded keys the second does not run the aggregate query.
C6_AnyTwoPolls ==
    /\ \A j \in 1..Len(pollLog) : C6_EachPoll(j)
    /\ \A i, j \in 1..Len(pollLog) :
          (i < j /\ RoundedKey(pollLog[i].bounds) = RoundedKey(pollLog[j].bounds))
              => ~pollLog[j].ran

\* C6 (SpecStats), amended: as C6_EachPoll, and of two CONSECUTIVE polls with
\* equal rounded keys the second does not run the aggregate query.
C6_Memoization ==
    /\ \A j \in 1..Len(pollLog) : C6_EachPoll(j)
    /\ \A j \in 2..Len(pollLog) :
          RoundedKey(pollLog[j-1].bounds) = RoundedKey(pollLog[j].bounds)
              => ~pollLog[j].ran

\* C6 witness: a poll ran the query for a viewport and the next poll, of a
\* different viewport with the same rounded key, did not.
C6_Witness ==
    \E j \in 2..Len(pollLog) :
        /\ pollLog[j-1].ran
        /\ pollLog[j].bounds.present
        /\ pollLog[j].bounds # pollLog[j-1].bounds
        /\ RoundedKey(pollLog[j].bounds) = RoundedKey(pollLog[j-1].bounds)
        /\ ~pollLog[j].ran

\* the ordering and adjacency of the boxes computed for the tiles of zoom <=
\* MaxZoom: minLon < maxLon and minLat < maxLat;
\* maxLon equals the minLon of the tile to the east and minLat the maxLat of
\* the tile to the south; column 0 starts at -180 and the last column ends
\* at 180; tile (0, 0, 0) is the world extent.
C9_BBoxOrderedAdjacent ==
    /\ bbox # NoBBox =>
          /\ bbox.min_lon < bbox.max_lon
          /\ bbox.min_lat < bbox.max_lat
          /\ tile.x = 0 => bbox.min_lon = -180000000
          /\ tile.x = Pow2(tile.z) - 1 => bbox.max_lon = 180000000
          /\ tile.z = 0 => (bbox.min_lat = -85051129 /\ bbox.max_lat = 85051129)
    /\ (nbox # NoBBox /\ ntile.x = tile.x + 1) =>
          /\ bbox.max_lon = nbox.min_lon
          /\ bbox.min_lat = nbox.min_lat /\ bbox.max_lat = nbox.max_lat
    /\ (nbox # NoBBox /\ ntile.y = tile.y + 1) =>
          /\ bbox.min_lat = nbox.max_lat
          /\ bbox.min_lon = nbox.min_lon /\ bbox.max_lon = nbox.max_lon

\* C9 (SpecBBox), as claimed, for EVERY zoom: as above, and minLon < maxLon
\* for the tiles of zoom 53 and 54 too.
C9_EveryZoom ==
    /\ C9_BBoxOrderedAdjacent
    /\ hiLon # NoLon => hiLon.min_lon < hiLon.max_lon

\* a building overlaps a viewport when its bbox is not wholly to one side
Overlapping(v) ==
    { f \in Buildings : ~(\/ f.xmin > v.east \/ f.xmax < v.west
                          \/ f.ymin > v.north \/ f.ymax < v.south) }

\* the aggregate {feature count, total area} of the dataset over a viewport
OverlapStats(v) == [count |-> Cardinality(Overlapping(v)), area |-> SumArea(Overlapping(v))]

\* the stats are those of a viewport whose rounded key is the last-seen key,
\* and are zero exactly when no building overlaps it
StatsOfLastSeenKey ==
    \E v \in StatsViews :
        /\ RoundedKey(Submitted(v)) = last_bounds
        /\ stats = OverlapStats(v)
        /\ (stats = ZeroStats) <=> (Overlapping(v) = {})

\* every poll cycle so far ran to its end: polls that succeeded or failed,
\* aggregate queries that succeeded or failed
EveryCycleCompleted ==
    /\ ppc = "idle"
    /\ \A j \in 1..Len(pollLog) : pollLog[j].q # "cut"

\* C11 (SpecStats), as claimed: after every poll cycle the stats are zero if
\* the last-seen key is the absent viewport, and otherwise the aggregate of
\* the dataset over a viewport with that key, zero exactly when no building
\* overlaps it -- also after a failing aggregate query.
C11_StatsMatchLastSeenKey ==
    EveryCycleCompleted =>
        IF last_bounds = NoneKey THEN stats = ZeroStats ELSE StatsOfLastSeenKey

=============================================================================
